---- MODULE Spec2Model ----
(***************************************************************************)
(* A state-machine model of rag-cli (src/src/rag_cli/main.py): one process *)
(* run of cli(), from the API-key check through (re)indexing, the Settings *)
(* write and the conversation loop.                                        *)
(*                                                                         *)
(* Text is a sequence of string fragments (single characters for typed     *)
(* input and streamed deltas), so that strip(), lower() and "".join() are  *)
(* computed rather than assumed.  Python's None / JSON null is the token   *)
(* None; a dict is a function whose DOMAIN is its key set.                 *)
(***************************************************************************)
EXTENDS Integers, Sequences, FiniteSets, TLC

VARIABLES
    args,             \* argparse namespace: files, reindex, strict, debug, thinking, non_interactive
    api_key,          \* whether OPEN_AI_API_KEY is set
    pc,               \* position of the single thread of control
    exitCode,         \* process exit status, NoExit while running
    failure,          \* which branch ended the process ("" while running / normal end)
    disk,             \* the file settings.json
    disk0,            \* settings.json as it was when the process started (history)
    cwd,              \* the working directory as glob / os.walk list it (input)
    settings,         \* the dict `settings` of load_or_create_settings / main
    calls,            \* remote calls issued so far, in order (history)
    files_to_upload,  \* create_vector_store local
    file_ids,         \* create_vector_store local
    vector_store,     \* create_vector_store local: id of the store created in this run
    polls,            \* number of file_batches.retrieve calls in this run
    sleeps,           \* number of time.sleep(1) calls in this run
    conversation,     \* main local: list of {role, content}
    transcript,       \* the chat log file: blocks written by log(), in order
    user_input,       \* the stripped input of the current turn
    raw_input,        \* the input of the current turn as read (history)
    streamed_text,    \* process_query local
    retrieved_chunks, \* process_query local
    sink,             \* text printed by the current turn (stdout / console)
    events,           \* stream events delivered in the current turn, in order (history)
    ret,              \* last value returned by process_query
    turns,            \* number of inputs read so far
    nevents           \* number of stream events consumed so far in this run

vars == <<args, api_key, pc, exitCode, failure, disk, disk0, cwd, settings, calls,
          files_to_upload, file_ids, vector_store, polls, sleeps,
          conversation, transcript, user_input, raw_input, streamed_text,
          retrieved_chunks, sink, events, ret, turns, nevents>>

(***************************************************************************)
(* Bounds of the exploration.                                              *)
(***************************************************************************)
MaxTurns == 2      \* inputs read in interactive mode
MaxEvents == 2     \* stream events consumed in one run
MaxPending == 2    \* non-terminal batch statuses before a terminal one

None == "<None>"
NoExit == -1
\* the status of a process ended by SIGINT, as wait() reports it
KilledBySignal == -2

(***************************************************************************)
(* Python helpers.                                                         *)
(***************************************************************************)
EmptyDict == [k \in {} |-> None]

\* dict.get(key): the value, or None when the key is missing
Get(d, k) == IF k \in DOMAIN d THEN d[k] ELSE None

\* d[key] = value
Put(d, k, v) == [x \in (DOMAIN d) \cup {k} |-> IF x = k THEN v ELSE d[x]]

\* Python truthiness of a string-or-None value
Truthy(v) == v # None /\ v # ""

Last(s) == s[Len(s)]

Whitespace == {" ", "\n", "\t"}

RECURSIVE LStrip(_)
LStrip(s) == IF s # <<>> /\ Head(s) \in Whitespace THEN LStrip(Tail(s)) ELSE s

RECURSIVE RStrip(_)
RStrip(s) == IF s # <<>> /\ Last(s) \in Whitespace
             THEN RStrip(SubSeq(s, 1, Len(s) - 1)) ELSE s

\* str.strip()
Strip(s) == RStrip(LStrip(s))

LowerChar(c) == CASE c = "Q" -> "q" [] c = "U" -> "u" [] c = "I" -> "i"
                  [] c = "T" -> "t" [] c = "E" -> "e" [] c = "X" -> "x"
                  [] c = "H" -> "h" [] OTHER -> c

\* str.lower()
Lower(s) == [i \in 1..Len(s) |-> LowerChar(s[i])]

\* "".join(parts)
RECURSIVE Join(_)
Join(parts) == IF parts = <<>> THEN <<>> ELSE Head(parts) \o Join(Tail(parts))

\* role.upper() in log()
Upper(role) == CASE role = "user" -> "USER"
                 [] role = "assistant" -> "ASSISTANT"
                 [] OTHER -> role

THINKING_MAP == [l |-> "low", m |-> "medium", h |-> "high"]

QuitWords == { <<"q","u","i","t">>, <<"e","x","i","t">> }

(***************************************************************************)
(* The working directory seen by glob / os.path, and resolve_file_patterns.*)
(* It holds a.md, B.MD, img.png and docs/ (c.txt, d.png), the directory    *)
(* chat_logs/ that cli() creates before anything else (line 284) with the  *)
(* logs of earlier sessions, and settings.json when that file exists.      *)
(* The order in which glob and os.walk list a directory is the file        *)
(* system's: `cwd` records the listing of this run, d.top for the working  *)
(* directory, d.docs for docs/ and d.logs for chat_logs/.                  *)
(***************************************************************************)
SUPPORTED_EXTENSIONS ==
    { ".txt", ".md", ".pdf", ".doc", ".docx", ".pptx", ".html", ".htm",
      ".json", ".xml", ".csv", ".tsv", ".yaml", ".yml",
      ".py", ".js", ".ts", ".jsx", ".tsx", ".java", ".c", ".cpp", ".h", ".hpp",
      ".cs", ".go", ".rs", ".rb", ".php", ".swift", ".kt", ".scala", ".r",
      ".sh", ".bash", ".zsh", ".ps1", ".bat", ".cmd", ".sql", ".lua", ".pl",
      ".hs", ".elm", ".ex", ".exs", ".clj", ".lisp", ".scm", ".ml", ".fs",
      ".toml", ".ini", ".cfg", ".conf", ".tex", ".rst", ".org", ".adoc" }

OldLog == "chat_logs/chat_20261030_120000.md"

Range(s) == { s[i] : i \in 1..Len(s) }

\* states of the directory: a listing order of the working directory and of docs/,
\* and the logs earlier sessions left in chat_logs/
Listings ==
    { [top |-> <<"chat_logs", "settings.json", "img.png", "a.md", "B.MD", "docs">>,
       docs |-> <<"docs/d.png", "docs/c.txt">>, logs |-> <<>>],
      [top |-> <<"chat_logs", "settings.json", "img.png", "a.md", "B.MD", "docs">>,
       docs |-> <<"docs/d.png", "docs/c.txt">>, logs |-> <<OldLog>>],
      [top |-> <<"docs", "B.MD", "settings.json", "a.md", "chat_logs", "img.png">>,
       docs |-> <<"docs/c.txt", "docs/d.png">>, logs |-> <<OldLog>>] }

NotSettingsFile(name) == name # "settings.json"

\* the directories a run may start in: settings.json is listed when it exists
Directories(hasSettings) ==
    { [top |-> IF hasSettings THEN l.top ELSE SelectSeq(l.top, NotSettingsFile),
       docs |-> l.docs, logs |-> l.logs] : l \in Listings }

\* glob.glob(pattern, recursive=True) in the working directory d
Glob(pattern, d) ==
    CASE pattern = "a.md"   -> <<"a.md">>
      [] pattern = "./a.md" -> <<"./a.md">>
      [] pattern = "*.md"   -> <<"a.md">>
      [] pattern = "*"      -> d.top
      [] pattern = "docs"   -> <<"docs">>
      [] pattern = "img.png" -> <<"img.png">>
      [] OTHER -> <<>>

IsFile(path, d) ==
    \/ path \in {"a.md", "./a.md", "B.MD", "img.png", "docs/c.txt", "docs/d.png"}
    \/ path = "settings.json" /\ path \in Range(d.top)
    \/ path \in Range(d.logs)

IsDir(path) == path \in {"docs", "chat_logs"}

\* the file paths os.walk(dir) yields, joined with their root
Walk(dir, d) == CASE dir = "docs" -> d.docs
                  [] dir = "chat_logs" -> d.logs
                  [] OTHER -> <<>>

\* os.path.abspath
AbsPath(path) == CASE path = "./a.md" -> "/w/a.md"
                   [] path = "a.md" -> "/w/a.md"
                   [] path = "B.MD" -> "/w/B.MD"
                   [] path = "img.png" -> "/w/img.png"
                   [] path = "settings.json" -> "/w/settings.json"
                   [] path = "docs/c.txt" -> "/w/docs/c.txt"
                   [] path = "docs/d.png" -> "/w/docs/d.png"
                   [] path = OldLog -> "/w/chat_logs/chat_20261030_120000.md"
                   [] OTHER -> path

\* the extension of path.lower()
LowerExt(path) == CASE path \in {"a.md", "./a.md", "B.MD", OldLog} -> ".md"
                    [] path = "docs/c.txt" -> ".txt"
                    [] path = "settings.json" -> ".json"
                    [] path \in {"img.png", "docs/d.png"} -> ".png"
                    [] OTHER -> ""

\* path.lower().endswith(SUPPORTED_EXTENSIONS)
Supported(path) == LowerExt(path) \in SUPPORTED_EXTENSIONS

\* the files one glob match contributes (lines 127-140)
FilesOfMatch(match, d) ==
    IF IsFile(match, d) THEN (IF Supported(match) THEN <<match>> ELSE <<>>)
    ELSE IF IsDir(match) THEN SelectSeq(Walk(match, d), Supported)
    ELSE <<>>

RECURSIVE FilesOfMatches(_, _)
FilesOfMatches(matches, d) ==
    IF matches = <<>> THEN <<>>
    ELSE FilesOfMatch(Head(matches), d) \o FilesOfMatches(Tail(matches), d)

\* the list `files` after the loop over the patterns (lines 115-140)
RECURSIVE CollectFiles(_, _)
CollectFiles(patterns, d) ==
    IF patterns = <<>> THEN <<>>
    ELSE FilesOfMatches(Glob(Head(patterns), d), d) \o CollectFiles(Tail(patterns), d)

\* remove duplicates by absolute path, keeping first occurrences (lines 142-149)
RECURSIVE Unique(_, _)
Unique(files, seen) ==
    IF files = <<>> THEN <<>>
    ELSE IF AbsPath(Head(files)) \in seen THEN Unique(Tail(files), seen)
    ELSE <<Head(files)>> \o Unique(Tail(files), seen \cup {AbsPath(Head(files))})

\* resolve_file_patterns(patterns) run in the working directory d
resolve_file_patterns(patterns, d) == Unique(CollectFiles(patterns, d), {})

(***************************************************************************)
(* settings.json.  kind "absent": no file; "unparsable": a file json.load  *)
(* rejects (empty, truncated or otherwise malformed); "object": a JSON     *)
(* object, whose members are `data`.                                       *)
(***************************************************************************)
Absent == [kind |-> "absent", data |-> EmptyDict]
Unparsable == [kind |-> "unparsable", data |-> EmptyDict]
Object(d) == [kind |-> "object", data |-> d]

OldRecord == ("model" :> "gpt-5") @@ ("reasoning_effort" :> "low")
             @@ ("file_patterns" :> <<"old.md">>) @@ ("vector_store_id" :> "vs_old")

\* a record written before indexing ever completed has no vector_store_id
NoIdRecord == ("model" :> "gpt-5") @@ ("note" :> "kept")

\* does load_settings() raise?  (json.load on a malformed file)
LoadRaises(d) == d.kind = "unparsable"

\* load_settings(): the dict returned when it does not raise
load_settings(d) == IF d.kind = "object" THEN d.data ELSE EmptyDict

\* variant: --reindex is not consulted
needs_setupIgnoresReindex(a, s) == ~Truthy(Get(s, "vector_store_id"))

\* needs_setup (line 218)
needs_setup(a, s) == a.reindex \/ ~Truthy(Get(s, "vector_store_id"))

(***************************************************************************)
(* The remote service and the user, as the sets their answers come from.   *)
(***************************************************************************)
\* what client.models.list() may return
ModelLists == { <<"gpt-4o">>, <<"gpt-5-mini", "gpt-4o", "gpt-5">> }

\* m.id.startswith("gpt-5"), for the ids above
StartsWithGpt5(m) == m \in {"gpt-5", "gpt-5-mini"}

\* position of an id in Python's string order
ModelRank(m) == CASE m = "gpt-4o" -> 1 [] m = "gpt-5" -> 2 [] m = "gpt-5-mini" -> 3
                  [] OTHER -> 4

RECURSIVE SortedSet(_)
SortedSet(S) ==
    IF S = {} THEN <<>>
    ELSE LET m == CHOOSE x \in S : \A y \in S : ModelRank(x) <= ModelRank(y)
         IN <<m>> \o SortedSet(S \ {m})

\* chat_models (lines 43-46)
ChatModels(models) ==
    SortedSet({ models[i] : i \in { j \in 1..Len(models) : StartsWithGpt5(models[j]) } })

EffortLevels == <<"low", "medium", "high">>

\* the id the service gives an uploaded file
FileId(path) == <<"file", path>>

\* ids the service may give a new vector store
FreshStoreIds == {"vs_new"}

BatchId == "batch_1"

\* statuses file_batches.retrieve may report besides completed and failed; the
\* loop compares the status with "completed" and "failed" only, so one stands for all
NonTerminalStatuses == {"in_progress"}

\* what may be piped into stdin in non-interactive mode
StdinInputs == { <<" ", "h", "i", "\n">>, <<" ", "\n">>, <<>> }

\* lines the user may type at the "You: " prompt
PromptInputs == { <<" ", "h", "i", " ">>, <<"Q", "u", "i", "t", " ">> }

\* payloads of response.output_text.delta events; "[b]" and "[/b]" are text that
\* reads as console markup
Deltas == { <<"a">>, <<"b">>, <<"[b]">>, <<"[/b]">> }

IsOpenTag(c) == c = "[b]"
IsCloseTag(c) == c = "[/b]"
IsPlainText(c) == ~IsOpenTag(c) /\ ~IsCloseTag(c)

\* what console.print(text, end="") writes: markup tags are consumed as style
Render(text) == SelectSeq(text, IsPlainText)

\* does the text hold a closing tag with no open tag before it?
RECURSIVE Unmatched(_, _)
Unmatched(text, open) ==
    IF text = <<>> THEN FALSE
    ELSE IF IsOpenTag(Head(text)) THEN Unmatched(Tail(text), open + 1)
    ELSE IF IsCloseTag(Head(text)) THEN open = 0 \/ Unmatched(Tail(text), open - 1)
    ELSE Unmatched(Tail(text), open)

\* console.print(text) raises rich.errors.MarkupError
MarkupError(text) == Unmatched(text, 0)

\* payloads of response.file_search.result events
Chunks == {"c1", "c2"}

TextDelta(delta) == [type |-> "response.output_text.delta", payload |-> delta]
FileSearchResult(chunk) == [type |-> "response.file_search.result", payload |-> chunk]
OtherEvent == [type |-> "response.created", payload |-> ""]

\* system_prompt (lines 310-324)
SystemPrompt(strict) ==
    <<"You are a specialized assistant. ",
      "Use ONLY the provided file knowledge when relevant. ">>
    \o (IF strict
        THEN <<"If the answer is not explicitly contained in the files, ",
               "respond with: 'The provided documents do not contain that information.'">>
        ELSE <<"If the files do not contain the answer, you may reason normally but clearly ",
               "state that you are extrapolating.">>)

\* main's locals model, vector_store_id, reasoning_effort (lines 295-304)
Model == settings["model"]
VectorStoreId == settings["vector_store_id"]
ReasoningEffort == IF Truthy(args.thinking) THEN THINKING_MAP[args.thinking]
                   ELSE Get(settings, "reasoning_effort")

\* an entry of `calls`: a remote call that returned res, or one that raised
Call(op, arg, res) == [op |-> op, arg |-> arg, res |-> res, ok |-> TRUE]
Raised(op, arg) == [op |-> op, arg |-> arg, res |-> None, ok |-> FALSE]

\* variant: only the new message is sent
RequestKwargsLastOnly ==
    LET base == ("model" :> Model) @@ ("input" :> <<Last(conversation)>>) @@ ("stream" :> TRUE)
                @@ ("tools" :> <<[type |-> "file_search",
                                  vector_store_ids |-> <<VectorStoreId>>]>>)
    IN IF Truthy(ReasoningEffort)
       THEN base @@ ("reasoning" :> [effort |-> ReasoningEffort])
       ELSE base

\* request_kwargs (lines 354-366)
RequestKwargs ==
    LET base == ("model" :> Model) @@ ("input" :> conversation) @@ ("stream" :> TRUE)
                @@ ("tools" :> <<[type |-> "file_search",
                                  vector_store_ids |-> <<VectorStoreId>>]>>)
    IN IF Truthy(ReasoningEffort)
       THEN base @@ ("reasoning" :> [effort |-> ReasoningEffort])
       ELSE base

(***************************************************************************)
(* Initial states: the invocations explored.  One family varies what the   *)
(* indexing path depends on (key, files, --reindex, settings.json) in      *)
(* non-interactive mode; a second varies the conversation flags over an   *)
(* already indexed corpus; a third adds the --thinking override.  The     *)
(* listing of the working directory varies for the runs whose patterns     *)
(* hold a wildcard, the only ones that read it.                            *)
(***************************************************************************)
FileArgChoices == { <<>>, <<"missing.md", "img.png">>, <<"a.md">>, <<"./a.md", "*">> }

DiskChoices == { Absent, Unparsable, Object(OldRecord), Object(NoIdRecord) }

IndexingInvocations ==
    [ key : BOOLEAN, disk : DiskChoices,
      args : [ files : FileArgChoices, reindex : BOOLEAN, strict : {FALSE},
               debug : {FALSE}, thinking : {None}, non_interactive : {TRUE} ] ]

ConversationInvocations ==
    [ key : {TRUE}, disk : {Object(OldRecord)},
      args : [ files : {<<>>}, reindex : {FALSE}, strict : BOOLEAN,
               debug : BOOLEAN, thinking : {None}, non_interactive : BOOLEAN ] ]

\* -t/--thinking overrides the persisted reasoning effort
ThinkingInvocations ==
    [ key : {TRUE}, disk : {Object(OldRecord)},
      args : [ files : {<<>>}, reindex : {FALSE}, strict : {FALSE},
               debug : {TRUE}, thinking : {"l", "h"}, non_interactive : {TRUE} ] ]

\* the directory of the runs whose patterns hold no wildcard
UsualDirectory(hasSettings) ==
    CHOOSE d \in Directories(hasSettings) : d.logs = <<>>

Invocations == IndexingInvocations \cup ConversationInvocations \cup ThinkingInvocations

Init ==
    /\ \E inv \in Invocations :
          /\ args = inv.args
          /\ api_key = inv.key
          /\ disk = inv.disk
          /\ disk0 = inv.disk
          /\ cwd \in Directories(inv.disk.kind # "absent")
          /\ "*" \notin Range(inv.args.files) => cwd = UsualDirectory(inv.disk.kind # "absent")
    /\ pc = "start"
    /\ exitCode = NoExit
    /\ failure = ""
    /\ settings = EmptyDict
    /\ calls = <<>>
    /\ files_to_upload = <<>>
    /\ file_ids = <<>>
    /\ vector_store = None
    /\ polls = 0
    /\ sleeps = 0
    /\ conversation = <<>>
    /\ transcript = <<>>
    /\ user_input = <<>>
    /\ raw_input = <<>>
    /\ streamed_text = <<>>
    /\ retrieved_chunks = <<>>
    /\ sink = <<>>
    /\ events = <<>>
    /\ ret = [final_answer |-> <<>>, retrieved_chunks |-> <<>>]
    /\ turns = 0
    /\ nevents = 0

indexVars == <<files_to_upload, file_ids, vector_store, polls, sleeps>>
chatVars == <<conversation, transcript, user_input, raw_input, streamed_text,
              retrieved_chunks, sink, events, ret, turns, nevents>>
inputVars == <<args, api_key, disk0, cwd>>

\* sys.exit(code), or an exception nobody catches (code 1)
Exit(code, why) ==
    /\ pc' = "done"
    /\ exitCode' = code
    /\ failure' = why

Goto(label) ==
    /\ pc' = label
    /\ UNCHANGED <<exitCode, failure>>

(***************************************************************************)
(* cli(): the API-key check (lines 276-284).                               *)
(***************************************************************************)
Cli ==
    /\ pc = "start"
    /\ IF ~api_key THEN Exit(1, "no_api_key") ELSE Goto("load")
    /\ UNCHANGED <<inputVars, disk, settings, calls, indexVars, chatVars>>

(***************************************************************************)
(* load_or_create_settings (lines 217-240): load, decide, and the check    *)
(* that file patterns were given.  json.load raising is not caught         *)
(* anywhere, so the process ends with a traceback.                         *)
(***************************************************************************)
\* variant: the check that file patterns were given (lines 231-240) is missing
LoadOrCreateNoFilesCheck ==
    /\ pc = "load"
    /\ IF LoadRaises(disk)
       THEN /\ Exit(1, "settings_unparsable")
            /\ UNCHANGED settings
       ELSE /\ settings' = load_settings(disk)
            /\ IF ~needs_setup(args, settings') THEN Goto("main")
               ELSE Goto("select_model")
    /\ UNCHANGED <<inputVars, disk, calls, indexVars, chatVars>>

LoadOrCreate ==
    /\ pc = "load"
    /\ IF LoadRaises(disk)
       THEN /\ Exit(1, "settings_unparsable")
            /\ UNCHANGED settings
       ELSE /\ settings' = load_settings(disk)
            /\ IF ~needs_setup(args, settings') THEN Goto("main")
               ELSE IF args.files = <<>> THEN Exit(1, "no_files_specified")
               ELSE Goto("select_model")
    /\ UNCHANGED <<inputVars, disk, calls, indexVars, chatVars>>

(***************************************************************************)
(* select_model (lines 36-67), called at line 243.                         *)
(***************************************************************************)
SelectModelRaises ==
    /\ pc = "select_model"
    /\ calls' = Append(calls, Raised("list_models", <<>>))
    /\ Exit(1, "list_models_raised")
    /\ UNCHANGED <<inputVars, disk, settings, indexVars, chatVars>>

\* lines 40-56: the list is fetched and the gpt-5 models are shown
SelectModel ==
    /\ pc = "select_model"
    /\ \E models \in ModelLists :
          /\ calls' = Append(calls, Call("list_models", <<>>, models))
          /\ IF ChatModels(models) = <<>>
             THEN Exit(1, "no_chat_models")
             ELSE Goto("ask_model")
    /\ UNCHANGED <<inputVars, disk, settings, indexVars, chatVars>>

\* lines 57-64 and 243: Prompt.ask returns a valid number.  An invalid answer
\* prints a message and asks again (lines 65-67), changing nothing.
AskModel ==
    /\ pc = "ask_model"
    /\ LET chat_models == ChatModels(Last(calls).res) IN
          \E idx \in 1..Len(chat_models) :
             settings' = Put(settings, "model", chat_models[idx])
    /\ Goto("select_effort")
    /\ UNCHANGED <<inputVars, disk, calls, indexVars, chatVars>>

\* line 58: stdin is at end of file; the EOFError of input() is caught nowhere
AskModelEOF ==
    /\ pc = "ask_model"
    /\ Exit(1, "prompt_eof")
    /\ UNCHANGED <<inputVars, disk, settings, calls, indexVars, chatVars>>

(***************************************************************************)
(* select_reasoning_effort (lines 69-92) and lines 244-245.                *)
(***************************************************************************)
\* variant: the choices are saved as soon as they are made, before indexing
SelectReasoningEffortSaves ==
    /\ pc = "select_effort"
    /\ \E idx \in 1..Len(EffortLevels) :
          settings' = Put(Put(settings, "reasoning_effort", EffortLevels[idx]),
                          "file_patterns", args.files)
    /\ disk' = Object(settings')
    /\ Goto("resolve")
    /\ UNCHANGED <<inputVars, calls, indexVars, chatVars>>

\* Prompt.ask returns a valid number; an invalid answer asks again (lines 90-92)
SelectReasoningEffort ==
    /\ pc = "select_effort"
    /\ \E idx \in 1..Len(EffortLevels) :
          settings' = Put(Put(settings, "reasoning_effort", EffortLevels[idx]),
                          "file_patterns", args.files)
    /\ Goto("resolve")
    /\ UNCHANGED <<inputVars, disk, calls, indexVars, chatVars>>

\* line 83: stdin is at end of file; the EOFError of input() is caught nowhere
SelectReasoningEffortEOF ==
    /\ pc = "select_effort"
    /\ Exit(1, "prompt_eof")
    /\ UNCHANGED <<inputVars, disk, settings, calls, indexVars, chatVars>>

(***************************************************************************)
(* create_vector_store (lines 157-213).                                    *)
(***************************************************************************)
\* variant: the vector store is created before the file list is looked at
ResolveAfterCreate ==
    /\ pc = "resolve"
    /\ calls' = Append(calls, Call("create_index", "cli-rag-store", "vs_new"))
    /\ files_to_upload' = resolve_file_patterns(args.files, cwd)
    /\ file_ids' = <<>>
    /\ IF files_to_upload' = <<>> THEN Exit(1, "no_supported_files") ELSE Goto("upload")
    /\ UNCHANGED <<inputVars, disk, settings, vector_store, polls, sleeps, chatVars>>

\* lines 161-172
Resolve ==
    /\ pc = "resolve"
    /\ files_to_upload' = resolve_file_patterns(args.files, cwd)
    /\ file_ids' = <<>>
    /\ IF files_to_upload' = <<>> THEN Exit(1, "no_supported_files") ELSE Goto("upload")
    /\ UNCHANGED <<inputVars, disk, settings, calls, vector_store, polls, sleeps, chatVars>>

\* one iteration of the upload loop (lines 174-185)
Upload ==
    /\ pc = "upload"
    /\ LET filepath == files_to_upload[Len(file_ids) + 1] IN
          /\ calls' = Append(calls, Call("upload", filepath, FileId(filepath)))
          /\ file_ids' = Append(file_ids, FileId(filepath))
    /\ IF Len(file_ids') = Len(files_to_upload) THEN Goto("create_index") ELSE Goto("upload")
    /\ UNCHANGED <<inputVars, disk, settings, files_to_upload, vector_store, polls, sleeps,
                   chatVars>>

\* variant: a failed upload is tried again
UploadRaisesRetries ==
    /\ pc = "upload"
    /\ Len(calls) < 8
    /\ calls' = Append(calls, Raised("upload", files_to_upload[Len(file_ids) + 1]))
    /\ Goto("upload")
    /\ UNCHANGED <<inputVars, disk, settings, indexVars, chatVars>>

\* client.files.create raises
UploadRaises ==
    /\ pc = "upload"
    /\ calls' = Append(calls, Raised("upload", files_to_upload[Len(file_ids) + 1]))
    /\ Exit(1, "upload_raised")
    /\ UNCHANGED <<inputVars, disk, settings, indexVars, chatVars>>

\* lines 187-191
CreateIndex ==
    /\ pc = "create_index"
    /\ \E id \in FreshStoreIds :
          /\ vector_store' = id
          /\ calls' = Append(calls, Call("create_index", "cli-rag-store", id))
    /\ Goto("submit")
    /\ UNCHANGED <<inputVars, disk, settings, files_to_upload, file_ids, polls, sleeps,
                   chatVars>>

CreateIndexRaises ==
    /\ pc = "create_index"
    /\ calls' = Append(calls, Raised("create_index", "cli-rag-store"))
    /\ Exit(1, "create_index_raised")
    /\ UNCHANGED <<inputVars, disk, settings, indexVars, chatVars>>

\* lines 193-197
SubmitBatch ==
    /\ pc = "submit"
    /\ calls' = Append(calls, Call("submit_batch",
                                   [vector_store_id |-> vector_store, file_ids |-> file_ids],
                                   BatchId))
    /\ Goto("poll")
    /\ UNCHANGED <<inputVars, disk, settings, indexVars, chatVars>>

SubmitBatchRaises ==
    /\ pc = "submit"
    /\ calls' = Append(calls, Raised("submit_batch",
                                     [vector_store_id |-> vector_store, file_ids |-> file_ids]))
    /\ Exit(1, "submit_batch_raised")
    /\ UNCHANGED <<inputVars, disk, settings, indexVars, chatVars>>

PollArg == [vector_store_id |-> vector_store, batch_id |-> BatchId]

PollCall(status) == Call("poll_batch", PollArg, status)

\* variant: the loop sleeps before it looks at the status
PollCompletedSleeps ==
    /\ pc = "poll"
    /\ calls' = Append(calls, Call("poll_batch", PollArg, "completed"))
    /\ polls' = polls + 1
    /\ sleeps' = sleeps + 1
    /\ settings' = Put(settings, "vector_store_id", vector_store)
    /\ Goto("save")
    /\ UNCHANGED <<inputVars, disk, files_to_upload, file_ids, vector_store, chatVars>>

\* lines 201-206, 212-213 and the assignment of line 246
PollCompleted ==
    /\ pc = "poll"
    /\ calls' = Append(calls, PollCall("completed"))
    /\ polls' = polls + 1
    /\ settings' = Put(settings, "vector_store_id", vector_store)
    /\ Goto("save")
    /\ UNCHANGED <<inputVars, disk, files_to_upload, file_ids, vector_store, sleeps, chatVars>>

\* lines 201-209
PollFailed ==
    /\ pc = "poll"
    /\ calls' = Append(calls, PollCall("failed"))
    /\ polls' = polls + 1
    /\ Exit(1, "indexing_failed")
    /\ UNCHANGED <<inputVars, disk, settings, files_to_upload, file_ids, vector_store, sleeps,
                   chatVars>>

\* variant: the loop gives up after the first sleep
PollPendingTimesOut ==
    /\ pc = "poll"
    /\ sleeps < MaxPending
    /\ \E status \in NonTerminalStatuses : calls' = Append(calls, PollCall(status))
    /\ polls' = polls + 1
    /\ IF sleeps >= 1 THEN Exit(1, "indexing_timeout") ELSE Goto("sleep")
    /\ UNCHANGED <<inputVars, disk, settings, files_to_upload, file_ids, vector_store, sleeps,
                   chatVars>>

\* lines 201-210, up to the sleep: any other status
PollPending ==
    /\ pc = "poll"
    /\ sleeps < MaxPending
    /\ \E status \in NonTerminalStatuses : calls' = Append(calls, PollCall(status))
    /\ polls' = polls + 1
    /\ Goto("sleep")
    /\ UNCHANGED <<inputVars, disk, settings, files_to_upload, file_ids, vector_store, sleeps,
                   chatVars>>

PollRaises ==
    /\ pc = "poll"
    /\ calls' = Append(calls, Raised("poll_batch", PollArg))
    /\ polls' = polls + 1
    /\ Exit(1, "poll_raised")
    /\ UNCHANGED <<inputVars, disk, settings, files_to_upload, file_ids, vector_store, sleeps,
                   chatVars>>

\* time.sleep(1) (line 210)
Sleep ==
    /\ pc = "sleep"
    /\ sleeps' = sleeps + 1
    /\ Goto("poll")
    /\ UNCHANGED <<inputVars, disk, settings, calls, files_to_upload, file_ids, vector_store,
                   polls, chatVars>>

(***************************************************************************)
(* save_settings (lines 32-34), called at line 247.  open(..., "w")        *)
(* truncates settings.json; the new text is on disk once json.dump has run *)
(* and the with-block has closed the file.                                 *)
(***************************************************************************)
SaveOpen ==
    /\ pc = "save"
    /\ disk' = Unparsable
    /\ Goto("save_dump")
    /\ UNCHANGED <<inputVars, settings, calls, indexVars, chatVars>>

SaveDump ==
    /\ pc = "save_dump"
    /\ disk' = Object(settings)
    /\ Goto("main")
    /\ UNCHANGED <<inputVars, settings, calls, indexVars, chatVars>>

(***************************************************************************)
(* main (lines 292-336): the locals built before the first input is read.  *)
(***************************************************************************)
MainInit ==
    /\ pc = "main"
    /\ IF "model" \notin DOMAIN settings \/ "vector_store_id" \notin DOMAIN settings
       THEN /\ Exit(1, "key_error")
            /\ UNCHANGED conversation
       ELSE /\ conversation' = <<[role |-> "system", content |-> SystemPrompt(args.strict)]>>
            /\ IF args.non_interactive THEN Goto("stdin") ELSE Goto("prompt")
    /\ UNCHANGED <<inputVars, disk, settings, calls, indexVars, transcript, user_input, raw_input,
                   streamed_text, retrieved_chunks, sink, events, ret, turns, nevents>>

\* variant: the log file is opened with "w"
logTruncates(role, text) == transcript' = <<[role |-> Upper(role), text |-> text]>>

\* log(role, text) (lines 338-340): one block appended to the chat log
log(role, text) == transcript' = Append(transcript, [role |-> Upper(role), text |-> text])

\* variant: the query is processed even when it is empty
ReadStdinNoEmptyCheck ==
    /\ pc = "stdin"
    /\ \E raw \in StdinInputs :
          /\ raw_input' = raw
          /\ user_input' = Strip(raw)
    /\ Goto("pq_append")
    /\ turns' = turns + 1
    /\ UNCHANGED <<inputVars, disk, settings, calls, indexVars, conversation, transcript,
                   streamed_text, retrieved_chunks, sink, events, ret, nevents>>

\* non-interactive mode reads all of stdin (lines 394-397)
ReadStdin ==
    /\ pc = "stdin"
    /\ \E raw \in StdinInputs :
          /\ raw_input' = raw
          /\ user_input' = Strip(raw)
          /\ IF user_input' = <<>> THEN Exit(0, "empty_stdin") ELSE Goto("pq_append")
    /\ turns' = turns + 1
    /\ UNCHANGED <<inputVars, disk, settings, calls, indexVars, conversation, transcript,
                   streamed_text, retrieved_chunks, sink, events, ret, nevents>>

\* one pass of the interactive loop up to the call of process_query (lines 409-416)
ReadPrompt ==
    /\ pc = "prompt"
    /\ turns < MaxTurns
    /\ \E raw \in PromptInputs :
          /\ raw_input' = raw
          /\ user_input' = Strip(raw)
          /\ IF Lower(user_input') \in QuitWords THEN Exit(0, "quit") ELSE Goto("pq_append")
    /\ turns' = turns + 1
    /\ UNCHANGED <<inputVars, disk, settings, calls, indexVars, conversation, transcript,
                   streamed_text, retrieved_chunks, sink, events, ret, nevents>>

\* line 410: stdin is at end of file; the EOFError of input() is caught nowhere
ReadPromptEOF ==
    /\ pc = "prompt"
    /\ Exit(1, "input_eof")
    /\ UNCHANGED <<inputVars, disk, settings, calls, indexVars, chatVars>>

(***************************************************************************)
(* process_query (lines 346-388).                                          *)
(***************************************************************************)
\* line 348
PQAppendUser ==
    /\ pc = "pq_append"
    /\ conversation' = Append(conversation, [role |-> "user", content |-> user_input])
    /\ Goto("pq_log")
    /\ UNCHANGED <<inputVars, disk, settings, calls, indexVars, transcript, user_input, raw_input,
                   streamed_text, retrieved_chunks, sink, events, ret, turns, nevents>>

\* variant: the question is not logged before the request
PQLogUserSkipped ==
    /\ pc = "pq_log"
    /\ Goto("pq_request")
    /\ UNCHANGED <<inputVars, disk, settings, calls, indexVars, chatVars>>

\* line 349
PQLogUser ==
    /\ pc = "pq_log"
    /\ log("user", user_input)
    /\ Goto("pq_request")
    /\ UNCHANGED <<inputVars, disk, settings, calls, indexVars, conversation, user_input, raw_input,
                   streamed_text, retrieved_chunks, sink, events, ret, turns, nevents>>

\* line 351, before the request is sent
PQResetText ==
    /\ pc = "pq_request"
    /\ streamed_text' = <<>>
    /\ Goto("pq_create")
    /\ UNCHANGED <<inputVars, disk, settings, calls, indexVars, conversation, transcript,
                   user_input, raw_input, retrieved_chunks, sink, events, ret, turns, nevents>>

\* lines 354-370: the service answers the request and the stream opens
PQRequest ==
    /\ pc = "pq_create"
    /\ calls' = Append(calls, Call("generate", RequestKwargs, "stream"))
    /\ retrieved_chunks' = <<>>
    /\ sink' = <<>>
    /\ events' = <<>>
    /\ Goto("stream")
    /\ UNCHANGED <<inputVars, disk, settings, indexVars, conversation, transcript, user_input, raw_input,
                   streamed_text, ret, turns, nevents>>

\* line 368: client.responses.create raises
PQRequestRaises ==
    /\ pc = "pq_create"
    /\ calls' = Append(calls, Raised("generate", RequestKwargs))
    /\ Exit(1, "generate_raised")
    /\ UNCHANGED <<inputVars, disk, settings, indexVars, chatVars>>

\* lines 373-378: a response.output_text.delta event that is printed
OnTextDelta(delta) ==
    /\ sink' = sink \o (IF args.non_interactive THEN delta ELSE Render(delta))
    /\ streamed_text' = Append(streamed_text, delta)
    /\ UNCHANGED retrieved_chunks

\* variant: the debug flag is not consulted
OnFileSearchResultUngated(event) ==
    /\ retrieved_chunks' = Append(retrieved_chunks, event)
    /\ UNCHANGED <<sink, streamed_text>>

\* lines 380-381: a response.file_search.result event
OnFileSearchResult(event) ==
    /\ retrieved_chunks' = IF args.debug THEN Append(retrieved_chunks, event)
                           ELSE retrieved_chunks
    /\ UNCHANGED <<sink, streamed_text>>

StreamTextDelta ==
    /\ pc = "stream"
    /\ nevents < MaxEvents
    /\ \E delta \in Deltas :
          /\ args.non_interactive \/ ~MarkupError(delta)
          /\ OnTextDelta(delta)
          /\ events' = Append(events, TextDelta(delta))
    /\ nevents' = nevents + 1
    /\ Goto("stream")
    /\ UNCHANGED <<inputVars, disk, settings, calls, indexVars, conversation, transcript,
                   user_input, raw_input, ret, turns>>

\* line 377: console.print raises MarkupError on the delta, before line 378
StreamMarkupError ==
    /\ pc = "stream"
    /\ nevents < MaxEvents
    /\ ~args.non_interactive
    /\ \E delta \in Deltas :
          /\ MarkupError(delta)
          /\ events' = Append(events, TextDelta(delta))
    /\ nevents' = nevents + 1
    /\ Exit(1, "markup_error")
    /\ UNCHANGED <<inputVars, disk, settings, calls, indexVars, conversation, transcript,
                   user_input, raw_input, streamed_text, retrieved_chunks, sink, ret, turns>>

StreamFileSearchResult ==
    /\ pc = "stream"
    /\ nevents < MaxEvents
    /\ \E chunk \in Chunks :
          /\ OnFileSearchResult(FileSearchResult(chunk))
          /\ events' = Append(events, FileSearchResult(chunk))
    /\ nevents' = nevents + 1
    /\ Goto("stream")
    /\ UNCHANGED <<inputVars, disk, settings, calls, indexVars, conversation, transcript,
                   user_input, raw_input, ret, turns>>

\* variant: an event of an unknown type is an error
StreamOtherAborts ==
    /\ pc = "stream"
    /\ nevents < MaxEvents
    /\ events' = Append(events, OtherEvent)
    /\ nevents' = nevents + 1
    /\ Exit(1, "unknown_event")
    /\ UNCHANGED <<inputVars, disk, settings, calls, indexVars, conversation, transcript,
                   user_input, raw_input, streamed_text, retrieved_chunks, sink, ret, turns>>

\* an event of any other type matches neither branch
StreamOther ==
    /\ pc = "stream"
    /\ nevents < MaxEvents
    /\ events' = Append(events, OtherEvent)
    /\ nevents' = nevents + 1
    /\ Goto("stream")
    /\ UNCHANGED <<inputVars, disk, settings, calls, indexVars, conversation, transcript,
                   user_input, raw_input, streamed_text, retrieved_chunks, sink, ret, turns>>

\* variant: what was received so far is kept as the answer
StreamRaisesKeepsPartial ==
    /\ pc = "stream"
    /\ conversation' = Append(conversation,
                              [role |-> "assistant", content |-> Join(streamed_text)])
    /\ Exit(1, "stream_raised")
    /\ UNCHANGED <<inputVars, disk, settings, calls, indexVars, transcript, user_input,
                   raw_input, streamed_text, retrieved_chunks, sink, events, ret, turns,
                   nevents>>

\* the iterator raises: the connection broke mid-stream
StreamRaises ==
    /\ pc = "stream"
    /\ Exit(1, "stream_raised")
    /\ UNCHANGED <<inputVars, disk, settings, calls, indexVars, chatVars>>

\* variant: only the last delta is kept
FinalAnswerLastOnly(parts) == IF parts = <<>> THEN <<>> ELSE Last(parts)

\* final_answer (line 383)
FinalAnswer(parts) == Join(parts)

\* the stream ends; lines 383-385
PQAppendAssistant ==
    /\ pc = "stream"
    /\ conversation' = Append(conversation,
                              [role |-> "assistant", content |-> FinalAnswer(streamed_text)])
    /\ Goto("pq_log_answer")
    /\ UNCHANGED <<inputVars, disk, settings, calls, indexVars, transcript, user_input, raw_input,
                   streamed_text, retrieved_chunks, sink, events, ret, turns, nevents>>

\* the "--- Retrieved Chunks ---" listing (lines 426-430); a chunk prints as its repr,
\* for which its payload stands
RECURSIVE ChunkLines(_)
ChunkLines(chunks) ==
    IF chunks = <<>> THEN <<>>
    ELSE <<Head(chunks).payload, "\n">> \o ChunkLines(Tail(chunks))

ChunkListing(chunks) ==
    <<"\n", "--- Retrieved Chunks ---", "\n">> \o ChunkLines(chunks)
    \o <<"--------------------------------", "\n", "\n">>

\* what the caller prints after process_query returned: print() (line 399), or
\* console.print("\n") and the debug listing (lines 420-430)
AfterAnswer(chunks) ==
    IF args.non_interactive THEN <<"\n">>
    ELSE <<"\n", "\n">> \o (IF args.debug /\ chunks # <<>> THEN ChunkListing(chunks) ELSE <<>>)

\* lines 386-388, then the caller: lines 399-400, or 420-430 and back to the prompt
PQReturn ==
    /\ pc = "pq_log_answer"
    /\ log("assistant", FinalAnswer(streamed_text))
    /\ ret' = [final_answer |-> FinalAnswer(streamed_text),
               retrieved_chunks |-> retrieved_chunks]
    /\ sink' = sink \o AfterAnswer(retrieved_chunks)
    /\ IF args.non_interactive THEN Exit(0, "answered") ELSE Goto("prompt")
    /\ UNCHANGED <<inputVars, disk, settings, calls, indexVars, conversation, user_input, raw_input,
                   streamed_text, retrieved_chunks, events, turns, nevents>>

(***************************************************************************)
(* KeyboardInterrupt inside main(): caught at lines 288-290, which print   *)
(* "Interrupted." and exit with code 0.  It can arrive between any two     *)
(* steps; inside save_settings the with-block closes the truncated file on *)
(* the way out.  `sink` is the output of a turn from the opening of its    *)
(* stream on, so the message is part of it when a turn is under way.       *)
(***************************************************************************)
\* console.print("\n[yellow]Interrupted.[/yellow]") (line 289)
InterruptedMessage == <<"\n", "Interrupted.", "\n">>

TurnUnderWay == pc \in {"stream", "pq_log_answer"}

Interrupt ==
    /\ pc \notin {"start", "done"}
    /\ sink' = IF TurnUnderWay THEN sink \o InterruptedMessage ELSE sink
    /\ Exit(0, "interrupted")
    /\ UNCHANGED <<inputVars, disk, settings, calls, indexVars, conversation, transcript,
                   user_input, raw_input, streamed_text, retrieved_chunks, events, ret, turns,
                   nevents>>

\* KeyboardInterrupt before line 286 is inside no try block: the interpreter lets
\* SIGINT end the process, which prints nothing of its own and has no exit code
InterruptBeforeMain ==
    /\ pc = "start"
    /\ Exit(KilledBySignal, "sigint")
    /\ UNCHANGED <<inputVars, disk, settings, calls, indexVars, chatVars>>

Next ==
    \/ Cli
    \/ LoadOrCreate
    \/ SelectModel
    \/ SelectModelRaises
    \/ AskModel
    \/ AskModelEOF
    \/ SelectReasoningEffort
    \/ SelectReasoningEffortEOF
    \/ Resolve
    \/ Upload
    \/ UploadRaises
    \/ CreateIndex
    \/ CreateIndexRaises
    \/ SubmitBatch
    \/ SubmitBatchRaises
    \/ PollCompleted
    \/ PollFailed
    \/ PollPending
    \/ PollRaises
    \/ Sleep
    \/ SaveOpen
    \/ SaveDump
    \/ MainInit
    \/ ReadStdin
    \/ ReadPrompt
    \/ ReadPromptEOF
    \/ PQAppendUser
    \/ PQLogUser
    \/ PQResetText
    \/ PQRequest
    \/ PQRequestRaises
    \/ StreamTextDelta
    \/ StreamMarkupError
    \/ StreamFileSearchResult
    \/ StreamOther
    \/ StreamRaises
    \/ PQAppendAssistant
    \/ PQReturn
    \/ Interrupt
    \/ InterruptBeforeMain

Spec == Init /\ [][Next]_vars

(***************************************************************************)
(* Views of the history used by the properties.                            *)
(***************************************************************************)
Ops == [i \in 1..Len(calls) |-> calls[i].op]

IsPoll(c) == c.op = "poll_batch"
IsGenerate(c) == c.op = "generate"
IsIndexingCall(c) == c.op \in {"upload", "create_index", "submit_batch"}
IsUserMessage(m) == m.role = "user"
IsUserEntry(e) == e.role = "USER"
IsDeltaEvent(e) == e.type = "response.output_text.delta"
IsChunkEvent(e) == e.type = "response.file_search.result"

PollCalls == SelectSeq(calls, IsPoll)
GenerateCalls == SelectSeq(calls, IsGenerate)
IndexingCalls == SelectSeq(calls, IsIndexingCall)

TerminalPoll(c) == c.ok /\ c.res \in {"completed", "failed"}

\* the concatenation of the payloads of the delta events of a stream, in order
RECURSIVE DeltaConcat(_)
DeltaConcat(evs) ==
    IF evs = <<>> THEN <<>>
    ELSE IF IsDeltaEvent(Head(evs)) THEN Head(evs).payload \o DeltaConcat(Tail(evs))
    ELSE DeltaConcat(Tail(evs))

\* process_query has just returned to its caller
Returned == (pc = "prompt" /\ turns >= 1) \/ failure = "answered"

\* the ways an indexing attempt fails
IndexingFailures == {"no_supported_files", "upload_raised", "create_index_raised",
                     "submit_batch_raised", "poll_raised", "indexing_failed"}

\* settings.json, as the process found it, holds a usable index id
HasIndexId(d) == d.kind = "object" /\ Truthy(Get(d.data, "vector_store_id"))

(***************************************************************************)
(* C1  Atomic settings: when an indexing attempt fails (no supported file, *)
(* an upload, the index creation or the batch submission raising, or the   *)
(* batch reported failed) settings.json is what it was when the process    *)
(* started; and save_settings is entered only once a poll has reported     *)
(* completed and create_vector_store has returned the new store's id.      *)
(***************************************************************************)
C1_AtomicSettings ==
    /\ (pc = "done" /\ failure \in IndexingFailures) => disk = disk0
    /\ (pc \in {"save", "save_dump"} \/ disk # disk0) =>
          /\ PollCalls # <<>>
          /\ Last(PollCalls).ok /\ Last(PollCalls).res = "completed"
          /\ vector_store \in FreshStoreIds
          /\ Get(settings, "vector_store_id") = vector_store

C1_Witness ==
    /\ pc = "done" /\ failure = "indexing_failed"
    /\ disk0 = Object(OldRecord) /\ args.reindex
    /\ sleeps >= 1

(***************************************************************************)
(* C2  Order preservation: when a turn returns, the answer it returns and  *)
(* the assistant message it appended are the concatenation of the payloads *)
(* of the delta events of that turn's stream, in delivery order (empty     *)
(* when the stream held no delta).                                         *)
(***************************************************************************)
C2_OrderPreservation ==
    /\ Returned =>
          /\ ret.final_answer = DeltaConcat(events)
          /\ Last(conversation) = [role |-> "assistant", content |-> DeltaConcat(events)]
    /\ pc = "pq_log_answer" =>
          Last(conversation) = [role |-> "assistant", content |-> DeltaConcat(events)]

C2_Witness ==
    /\ Returned
    /\ Len(events) = 2
    /\ IsDeltaEvent(events[1]) /\ IsDeltaEvent(events[2])
    /\ ret.final_answer = <<"b", "a">>

(***************************************************************************)
(* C3  Debug gating: without --debug a turn returns no retrieved chunk,    *)
(* whatever the stream held; with --debug it returns exactly the           *)
(* file-search-result events of that turn's stream, in arrival order.      *)
(***************************************************************************)
C3_DebugGating ==
    Returned =>
        ret.retrieved_chunks = IF args.debug THEN SelectSeq(events, IsChunkEvent) ELSE <<>>

C3_Witness ==
    /\ Returned
    /\ ~args.debug
    /\ Len(SelectSeq(events, IsChunkEvent)) >= 2

(***************************************************************************)
(* C4  (as stated) When the patterns resolve to no file, the process exits *)
(* with a nonzero code, settings.json is untouched and no remote call at   *)
(* all - list_models included - has been made in the run.                  *)
(***************************************************************************)
C4_NoCallAtAll ==
    failure = "no_supported_files" =>
        (pc = "done" /\ exitCode = 1 /\ disk = disk0 /\ Len(calls) = 0)

(***************************************************************************)
(* C4  (amended) When the patterns resolve to no file, the process exits   *)
(* with a nonzero code, settings.json is untouched, and the only remote    *)
(* call of the run is the one list_models call of the model picker: no     *)
(* upload, create_index, submit_batch, poll_batch or generate call.        *)
(***************************************************************************)
C4_NoIndexingCall ==
    failure = "no_supported_files" =>
        (pc = "done" /\ exitCode = 1 /\ disk = disk0 /\ Ops = <<"list_models">>)

C4_Witness ==
    /\ failure = "no_supported_files"
    /\ args.files = <<"missing.md", "img.png">>
    /\ files_to_upload = <<>>

(***************************************************************************)
(* C5  Pre-flight failures: when the API key is missing, or indexing is    *)
(* required (--reindex, or no index id in settings.json) and no file       *)
(* pattern was given, no remote call is ever issued, settings.json is      *)
(* never changed, and the process, unless interrupted first, ends with a   *)
(* nonzero exit code.                                                      *)
(***************************************************************************)
PreflightFails ==
    \/ ~api_key
    \/ (args.reindex \/ ~HasIndexId(disk0)) /\ args.files = <<>>

C5_PreflightBeforeRemote ==
    PreflightFails =>
        /\ Len(calls) = 0
        /\ disk = disk0
        /\ pc \in {"start", "load", "done"}
        /\ (pc = "done" /\ failure \notin {"interrupted", "sigint"}) => exitCode = 1

C5_Witness ==
    /\ pc = "done" /\ failure = "no_files_specified"
    /\ api_key /\ args.reindex /\ disk0 = Object(OldRecord)

(***************************************************************************)
(* C6  Settings load never raises: with settings.json missing or           *)
(* unparsable, loading yields the empty record and the run goes on to      *)
(* fresh indexing; it does not end on the load.                            *)
(***************************************************************************)
C6_LoadNeverRaises ==
    (api_key /\ disk0.kind \in {"absent", "unparsable"} /\ pc \notin {"start", "load"}) =>
        failure # "settings_unparsable"

(***************************************************************************)
(* C7  Polling loop: no poll follows a terminal status; once a terminal    *)
(* status has been reported after k non-terminal ones, there have been     *)
(* exactly k+1 polls and k sleeps, and there never are more sleeps; on     *)
(* completed the id handed to Settings is the id create_index returned in  *)
(* this run; on failed the process has exited with code 1.                 *)
(***************************************************************************)
CreatedIds == { calls[i].res : i \in { j \in 1..Len(calls) :
                                       calls[j].op = "create_index" /\ calls[j].ok } }

C7_PollingLoop ==
    LET P == PollCalls
        k == Len(SelectSeq(P, LAMBDA c : c.ok /\ c.res \in NonTerminalStatuses))
    IN /\ polls = Len(P)
       /\ \A i \in 1..Len(P) : (TerminalPoll(P[i]) \/ ~P[i].ok) => i = Len(P)
       /\ (P # <<>> /\ TerminalPoll(Last(P))) => (Len(P) = k + 1 /\ sleeps = k)
       /\ (P # <<>> /\ Last(P).ok /\ Last(P).res = "completed") =>
              /\ CreatedIds = {vector_store}
              /\ Get(settings, "vector_store_id") = vector_store
              /\ failure \notin IndexingFailures
       /\ (P # <<>> /\ Last(P).ok /\ Last(P).res = "failed") =>
              (pc = "done" /\ exitCode = 1 /\ failure = "indexing_failed")

C7_Witness ==
    /\ pc = "save"
    /\ sleeps = 2
    /\ Len(PollCalls) = 3
    /\ Last(PollCalls).res = "completed"

(***************************************************************************)
(* C8  Indexing step order: the upload, create_index and submit_batch      *)
(* calls of a run are a prefix of: one upload per resolved file in         *)
(* resolution order, then one create_index, then one submit_batch carrying *)
(* the ids of all uploads in upload order and the id of the new store.  A  *)
(* call that raised is the last remote call of the run (no retry, nothing  *)
(* after it); polling happens only after the batch was submitted, and by   *)
(* then every one of these calls has been made exactly once.               *)
(***************************************************************************)
ExpectedFileIds(files) == [i \in 1..Len(files) |-> FileId(files[i])]

C8_IndexingOrder ==
    LET files == resolve_file_patterns(args.files, cwd)
        n == Len(files)
        X == IndexingCalls
    IN /\ Len(X) <= n + 2
       /\ \A i \in 1..Len(X) :
             /\ i <= n => (X[i].op = "upload" /\ X[i].arg = files[i]
                           /\ (X[i].ok => X[i].res = FileId(files[i])))
             /\ i = n + 1 => X[i].op = "create_index"
             /\ i = n + 2 => /\ X[i].op = "submit_batch"
                             /\ X[i].arg.file_ids = ExpectedFileIds(files)
                             /\ X[i].arg.vector_store_id = X[n + 1].res
       /\ \A i \in 1..Len(calls) : ~calls[i].ok => (i = Len(calls) /\ pc = "done")
       /\ \A i \in 1..Len(calls) :
             calls[i].op \in {"poll_batch", "generate"} /\ Len(X) > 0 =>
                 (Len(X) = n + 2 /\ \A j \in 1..Len(X) : X[j].ok)
       /\ PollCalls # <<>> => (Len(X) = n + 2 /\ n > 0)
       /\ Ops \in Seq({"list_models", "upload", "create_index", "submit_batch",
                       "poll_batch", "generate"})

C8_Witness ==
    /\ pc = "save"
    /\ Len(file_ids) = 3
    /\ Len(IndexingCalls) = 5

(***************************************************************************)
(* C9  The question is recorded before the request: for the k-th           *)
(* generation request issued, the k-th user message is already in the      *)
(* conversation and the k-th USER block, with the same text, is already in *)
(* the chat log, and the request carries that message last.  This holds    *)
(* in every state, so also after a failure that follows the request.       *)
(***************************************************************************)
C9_QuestionRecordedFirst ==
    LET G == GenerateCalls
        U == SelectSeq(conversation, IsUserMessage)
        T == SelectSeq(transcript, IsUserEntry)
    IN \A k \in 1..Len(G) :
          /\ k <= Len(U)
          /\ k <= Len(T)
          /\ T[k].text = U[k].content
          /\ Last(G[k].arg["input"]) = U[k]

C9_Witness ==
    /\ pc = "done" /\ failure = "stream_raised"
    /\ Len(GenerateCalls) = 2
    /\ Len(transcript) = 3

(***************************************************************************)
(* C10  An interrupt never leaves a partially written settings.json: after *)
(* an interrupted run the file is either what it was when the process      *)
(* started or the complete new record.                                     *)
(***************************************************************************)
C10_NoPartialSettings ==
    failure = "interrupted" => (disk = disk0 \/ disk = Object(settings))

(***************************************************************************)
(* C11  Re-index is a full replacement: a settings.json written by this    *)
(* run holds exactly the model, reasoning effort, file patterns and index  *)
(* id chosen in this run, and nothing of the record found at startup.      *)
(***************************************************************************)
SettingsKeys == {"model", "reasoning_effort", "file_patterns", "vector_store_id"}

C11_FullReplacement ==
    (disk0.kind = "object" /\ disk # disk0 /\ disk.kind = "object") =>
        /\ DOMAIN disk.data = SettingsKeys
        /\ disk.data["file_patterns"] = args.files
        /\ disk.data["vector_store_id"] = vector_store

(***************************************************************************)
(* C12  Indexing necessity: the run enters the indexing path only when     *)
(* --reindex was given or settings.json holds no index id, and in that     *)
(* case it reaches the conversation only through a completed indexing.     *)
(* When neither holds, the only remote calls are generation requests,      *)
(* each naming the persisted index id, and settings.json is never written. *)
(***************************************************************************)
IndexingRequired == args.reindex \/ ~HasIndexId(disk0)

IndexingPcs == {"select_model", "ask_model", "select_effort", "resolve", "upload", "create_index",
                "submit", "poll", "sleep", "save", "save_dump"}

ChatPcs == {"main", "stdin", "prompt", "pq_append", "pq_log", "pq_request", "pq_create",
            "stream",
            "pq_log_answer"}

RequestStoreIds(c) == c.arg["tools"][1].vector_store_ids

C12_IndexingNecessity ==
    /\ pc \in IndexingPcs => IndexingRequired
    /\ (IndexingRequired /\ pc \in ChatPcs) =>
          (PollCalls # <<>> /\ Last(PollCalls).ok /\ Last(PollCalls).res = "completed"
             /\ disk = Object(settings))
    /\ ~IndexingRequired =>
          /\ disk = disk0
          /\ \A i \in 1..Len(calls) :
                /\ calls[i].op = "generate"
                /\ RequestStoreIds(calls[i]) = <<disk0.data["vector_store_id"]>>

C12_Witness ==
    /\ ~IndexingRequired
    /\ args.files = <<>>
    /\ pc = "stream"
    /\ Len(GenerateCalls) = 2

(***************************************************************************)
(* C13  Non-interactive mode: when stdin is empty or only whitespace the   *)
(* process exits with code 0 having issued no generation request, added    *)
(* no message to the conversation and written nothing to the chat log;     *)
(* otherwise at most one request is ever issued, and a run that ends       *)
(* normally has executed exactly one turn.                                 *)
(***************************************************************************)
Blank(raw) == \A i \in 1..Len(raw) : raw[i] \in Whitespace

C13_NonInteractive ==
    args.non_interactive =>
        /\ (turns = 1 /\ Blank(raw_input)) =>
              /\ pc = "done" /\ exitCode = 0 /\ failure = "empty_stdin"
              /\ GenerateCalls = <<>>
              /\ Len(conversation) = 1
              /\ transcript = <<>>
        /\ Len(GenerateCalls) <= 1
        /\ turns <= 1
        /\ failure = "answered" =>
              /\ pc = "done" /\ exitCode = 0
              /\ ~Blank(raw_input)
              /\ Len(GenerateCalls) = 1
              /\ Len(conversation) = 3 /\ Len(transcript) = 2

C13_Witness ==
    /\ args.non_interactive
    /\ failure = "empty_stdin"
    /\ raw_input = <<" ", "\n">>

(***************************************************************************)
(* C14  A transport failure in the middle of a stream ends the turn and    *)
(* rolls nothing back: afterwards the conversation and the chat log both   *)
(* end with the unanswered user message, and the only assistant messages   *)
(* and ASSISTANT blocks are those of the turns completed before - none,    *)
(* not even a partial one, for the failed turn.                            *)
(***************************************************************************)
IsAssistantMessage(m) == m.role = "assistant"
IsAssistantEntry(e) == e.role = "ASSISTANT"

C14_NoRollbackNoPartial ==
    failure = "stream_raised" =>
        /\ pc = "done"
        /\ Last(conversation) = [role |-> "user", content |-> user_input]
        /\ Last(transcript) = [role |-> "USER", text |-> user_input]
        /\ Len(SelectSeq(conversation, IsAssistantMessage)) = Len(GenerateCalls) - 1
        /\ Len(SelectSeq(transcript, IsAssistantEntry)) = Len(GenerateCalls) - 1
        /\ Len(conversation) = 2 * Len(GenerateCalls)

C14_Witness ==
    /\ failure = "stream_raised"
    /\ Len(streamed_text) = 2
    /\ Len(GenerateCalls) = 2

(***************************************************************************)
(* C15  A stream transport error is fatal to the current turn only: in     *)
(* non-interactive mode the process exits with a nonzero code, and in      *)
(* interactive mode the process does not end on it - the loop goes on to   *)
(* the next prompt.                                                        *)
(***************************************************************************)
C15_FatalToTurnOnly ==
    /\ (args.non_interactive /\ failure = "stream_raised") => (pc = "done" /\ exitCode = 1)
    /\ ~args.non_interactive => failure # "stream_raised"

(***************************************************************************)
(* C16  Polling termination: the polling loop is left only when a poll     *)
(* reports completed or failed (or the process itself ends on a raising    *)
(* call or an interrupt) - never on a count of polls or sleeps; after a    *)
(* non-terminal status the next step of the pipeline is the sleep and then *)
(* another poll; a terminal status always ends the loop; and while the     *)
(* loop runs settings.json is not written.                                 *)
(***************************************************************************)
PollLoopPcs == {"poll", "sleep"}

C16_PollingTermination ==
    /\ [](pc \in PollLoopPcs =>
             /\ disk = disk0
             /\ \A i \in 1..Len(PollCalls) :
                   PollCalls[i].ok /\ PollCalls[i].res \in NonTerminalStatuses)
    /\ []((PollCalls # <<>> /\ TerminalPoll(Last(PollCalls))) => pc \notin PollLoopPcs)
    /\ [][ (pc \in PollLoopPcs /\ pc' \notin PollLoopPcs) =>
              \/ failure' \in {"poll_raised", "interrupted"}
              \/ (pc = "poll" /\ TerminalPoll(Last(calls')) /\ Last(calls').op = "poll_batch"
                    /\ Len(calls') = Len(calls) + 1) ]_vars
    /\ [][ (pc = "poll" /\ Len(calls') = Len(calls) + 1 /\ Last(calls').ok
              /\ ~TerminalPoll(Last(calls'))) => pc' = "sleep" ]_vars
    /\ [][ (pc = "sleep" /\ failure' # "interrupted") => pc' = "poll" ]_vars

C16_Witness ==
    /\ pc = "poll"
    /\ sleeps = 2
    /\ Len(PollCalls) = 2
    /\ disk = disk0

(***************************************************************************)
(* C17  Incremental delivery: at every point of a turn from the opening of *)
(* the stream on, the text handed to the output sink is the concatenation  *)
(* of the payloads of the delta events received so far, in arrival order   *)
(* (so each delta is printed before the next event is taken); when the     *)
(* stream has ended it is the final answer.                                *)
(***************************************************************************)
C17_IncrementalDelivery ==
    /\ pc \in {"stream", "pq_log_answer"} => sink = DeltaConcat(events)
    /\ pc = "pq_log_answer" => sink = Last(conversation).content
    /\ failure = "markup_error" => sink = DeltaConcat(events)

(***************************************************************************)
(* C18  The conversation is append-only under a fixed system message: its  *)
(* first message is always the system message built at construction, no    *)
(* step changes or removes an existing message, user and assistant         *)
(* messages alternate, after k completed turns it is the system message    *)
(* followed by k user/assistant pairs, and the k-th generation request     *)
(* carried exactly the first 2k messages - everything up to and including  *)
(* the new user message.                                                   *)
(***************************************************************************)
C18_AppendOnlyConversation ==
    /\ [](conversation # <<>> =>
             /\ conversation[1] = [role |-> "system", content |-> SystemPrompt(args.strict)]
             /\ \A i \in 2..Len(conversation) :
                   conversation[i].role = IF i % 2 = 0 THEN "user" ELSE "assistant")
    /\ [](Returned => Len(conversation) = 1 + 2 * Len(GenerateCalls))
    /\ [](\A k \in 1..Len(GenerateCalls) :
             /\ 2 * k <= Len(conversation)
             /\ GenerateCalls[k].arg["input"] = SubSeq(conversation, 1, 2 * k))
    /\ [][ /\ Len(conversation') >= Len(conversation)
           /\ SubSeq(conversation', 1, Len(conversation)) = conversation ]_vars

C18_Witness ==
    /\ pc = "stream"
    /\ Len(conversation) = 4
    /\ Len(GenerateCalls) = 2
    /\ conversation[3].content # <<>>

(***************************************************************************)
(* C19  Ignored events have no effect: consuming an event that is neither  *)
(* a text delta nor, with --debug, a file-search result leaves the text    *)
(* buffer, the chunk list, the conversation, the chat log and the sink     *)
(* output unchanged, and the turn goes on reading the stream.              *)
(***************************************************************************)
Ignored(e) == ~IsDeltaEvent(e) /\ (IsChunkEvent(e) => ~args.debug)

C19_IgnoredEventsNoEffect ==
    [][ (pc = "stream" /\ Len(events') = Len(events) + 1 /\ Ignored(Last(events'))) =>
           /\ UNCHANGED <<streamed_text, retrieved_chunks, conversation, transcript, sink>>
           /\ pc' = "stream"
           /\ exitCode' = NoExit ]_vars

C19_Witness ==
    /\ pc = "stream"
    /\ args.debug
    /\ Len(events) = 2
    /\ IsDeltaEvent(events[1])
    /\ ~IsDeltaEvent(events[2]) /\ ~IsChunkEvent(events[2])
    /\ Len(streamed_text) = 1 /\ sink # <<>>

(***************************************************************************)
(* C20  The chat log mirrors the conversation: its blocks are, in order    *)
(* and with the role written in capitals, the messages of the conversation *)
(* after the system message, missing at most the one message just          *)
(* appended; at every turn boundary none is missing; USER and ASSISTANT    *)
(* blocks alternate.                                                       *)
(***************************************************************************)
Mirror(m) == [role |-> Upper(m.role), text |-> m.content]

C20_TranscriptMirrors ==
    /\ conversation = <<>> => transcript = <<>>
    /\ conversation # <<>> =>
          LET body == Tail(conversation) IN
             /\ Len(transcript) <= Len(body)
             /\ Len(body) - Len(transcript) <= 1
             /\ \A i \in 1..Len(transcript) :
                   /\ transcript[i] = Mirror(body[i])
                   /\ transcript[i].role = IF i % 2 = 1 THEN "USER" ELSE "ASSISTANT"
             /\ (pc \in {"stdin", "prompt"} \/ Returned) => Len(transcript) = Len(body)

C20_Witness ==
    /\ pc = "pq_log_answer"
    /\ Len(conversation) = 5
    /\ Len(transcript) = 3

====
